---- MODULE Spec2Model ----
(***************************************************************************)
(* A model of the QPACK codec of hpack/qpack.py and of the ordered stream  *)
(* tracker of hpack/struct.py.                                             *)
(*                                                                         *)
(* Byte strings are sequences of numbers 0..255.  A Python call that can   *)
(* raise is an operator returning a record with a field exc: the name of   *)
(* the exception raised, or "none".  Python semantics are those of         *)
(* Python 3 (indexing bytes or a memoryview yields an int).                *)
(*                                                                         *)
(* hpack/table.py, hpack/hpack.py and the Huffman modules are imported by  *)
(* qpack.py but are not part of the sources at hand; QPACKHeaderTable,     *)
(* table_entry_size, decode_integer and decode_huffman are modelled from   *)
(* the specification (sections 3, 4.1, 4.2, 4.3).                          *)
(***************************************************************************)
EXTENDS Integers, Sequences, FiniteSets, TLC

VARIABLES
    d_header_table,            \* Decoder.header_table
    d_max_header_list_size,    \* Decoder.max_header_list_size
    d_max_allowed_table_size,  \* Decoder.max_allowed_table_size
    d_blocking_streams,        \* Decoder.blocking_streams (a LinkedList)
    e_header_table,            \* Encoder.header_table
    e_table_size_changes,      \* Encoder.table_size_changes
    e_unacked_streams,         \* Encoder.unacked_streams (a LinkedList)
    res,                       \* outcome of the last call made on either object
    tracker,                   \* a LinkedList its owner works on directly
    tracker_live,              \* how often each pair was inserted into tracker
                               \* and not yet removed or popped
    tracker_res,               \* outcome of the last call made on tracker
    lookup                     \* the __getitem__ or __setitem__ call running
                               \* on tracker, and where it stands

vars == << d_header_table, d_max_header_list_size, d_max_allowed_table_size,
           d_blocking_streams, e_header_table, e_table_size_changes,
           e_unacked_streams, res, tracker, tracker_live, tracker_res,
           lookup >>

tvars == << tracker, tracker_live, tracker_res, lookup >>

dvars == << d_header_table, d_max_header_list_size, d_max_allowed_table_size,
            d_blocking_streams >>

evars == << e_header_table, e_table_size_changes, e_unacked_streams >>

----------------------------------------------------------------------------
(* Bounds of the model.                                                    *)

\* Update is not taken once the dynamic table has seen this many insertions.
MaxInserts == 2
\* The max_header_list_size the decoder is constructed with.
HeaderListLimit == 70
\* No insert is made into the list worked on directly once it holds this
\* many entries.
MaxTracked == 3

----------------------------------------------------------------------------
(* Small helpers on numbers and byte strings.                              *)

Pow2(n) == 2 ^ n

\* x & (1 << k) # 0
BitSet(x, k) == (x \div Pow2(k)) % 2 = 1

\* data[i:] for a 1-based position i: the bytes from position i on.
From(data, i) == IF i > Len(data) THEN << >> ELSE SubSeq(data, i, Len(data))

----------------------------------------------------------------------------
(* hpack/struct.py: LinkedList.  The heap is the sequence nodes; a node's  *)
(* identity is its position in it, and 0 is None.                          *)

LinkedList_init == [nodes |-> << >>, head |-> 0, tail |-> 0]

RECURSIVE LinkedList_insert_walk(_, _, _, _)
\* The while loop of insert: prev, node walk the chain for the first node
\* whose value is >= the new node's value.
LinkedList_insert_walk(ll, new_id, prev, node) ==
    IF node = 0
    THEN [ll |-> ll, exc |-> "AssertionError"]
    ELSE IF ll.nodes[node].value >= ll.nodes[new_id].value
         THEN [ll |-> [ll EXCEPT !.nodes[prev].next = new_id,
                                 !.nodes[new_id].next = node],
               exc |-> "none"]
         ELSE LinkedList_insert_walk(ll, new_id, node, ll.nodes[node].next)

\* An insert that links every new node after tail.
LinkedList_insert_at_tail(ll, key, value) ==
    LET new_id == Len(ll.nodes) + 1
        l1 == [ll EXCEPT !.nodes = Append(ll.nodes,
                            [key |-> key, value |-> value, next |-> 0])]
    IN  IF ll.head = 0
        THEN [ll |-> [l1 EXCEPT !.head = new_id, !.tail = new_id], exc |-> "none"]
        ELSE [ll |-> [l1 EXCEPT !.nodes[ll.tail].next = new_id, !.tail = new_id],
              exc |-> "none"]

LinkedList_insert(ll, key, value) ==
    LET new_id == Len(ll.nodes) + 1
        l1 == [ll EXCEPT !.nodes = Append(ll.nodes,
                            [key |-> key, value |-> value, next |-> 0])]
    IN  IF ll.head = 0
        THEN [ll |-> [l1 EXCEPT !.head = new_id, !.tail = new_id], exc |-> "none"]
        ELSE IF value >= ll.nodes[ll.tail].value
        THEN [ll |-> [l1 EXCEPT !.nodes[ll.tail].next = new_id, !.tail = new_id],
              exc |-> "none"]
        ELSE IF value < ll.nodes[ll.head].value
        THEN [ll |-> [l1 EXCEPT !.nodes[new_id].next = ll.head, !.head = new_id],
              exc |-> "none"]
        ELSE LinkedList_insert_walk(l1, new_id, ll.head, ll.nodes[ll.head].next)

RECURSIVE LinkedList_popMany_walk(_, _, _)
\* The while loop of popMany: the first node whose value is > value, or 0.
LinkedList_popMany_walk(ll, node, value) ==
    IF node = 0 THEN 0
    ELSE IF ll.nodes[node].value > value THEN node
    ELSE LinkedList_popMany_walk(ll, ll.nodes[node].next, value)

\* popMany builds results but has no return statement: it returns None.  It
\* moves head and leaves tail alone.
LinkedList_popMany(ll, value) ==
    [ll |-> [ll EXCEPT !.head = LinkedList_popMany_walk(ll, ll.head, value)],
     result |-> "None"]

RECURSIVE LinkedList_popMany_results(_, _, _)
\* The local list results of popMany: the pairs of the nodes the loop
\* passes, in chain order.
LinkedList_popMany_results(ll, node, value) ==
    IF node = 0 THEN << >>
    ELSE IF ll.nodes[node].value > value THEN << >>
    ELSE << << ll.nodes[node].key, ll.nodes[node].value >> >>
         \o LinkedList_popMany_results(ll, ll.nodes[node].next, value)

\* popSmallest: on an empty list node is None and node.next raises.
LinkedList_popSmallest(ll) ==
    IF ll.head = 0
    THEN [ll |-> ll, exc |-> "AttributeError", item |-> << >>]
    ELSE LET node == ll.head
             l1 == [ll EXCEPT !.head = ll.nodes[node].next]
         IN  [ll |-> IF ll.nodes[node].next = 0
                     THEN [l1 EXCEPT !.tail = l1.head] ELSE l1,
              exc |-> "none",
              item |-> << ll.nodes[node].key, ll.nodes[node].value >>]

RECURSIVE LinkedList_delitem_walk(_, _, _, _)
\* The while loop of __delitem__: unlink the first node with the key.
LinkedList_delitem_walk(ll, key, prev, node) ==
    IF node = 0
    THEN [ll |-> ll, exc |-> "KeyError", item |-> << >>]
    ELSE IF ll.nodes[node].key = key
         THEN LET l1 == [ll EXCEPT !.nodes[prev].next = ll.nodes[node].next]
              IN  [ll |-> IF ll.nodes[node].next = 0
                          THEN [l1 EXCEPT !.tail = prev] ELSE l1,
                   exc |-> "none",
                   item |-> << ll.nodes[node].key, ll.nodes[node].value >>]
         ELSE LinkedList_delitem_walk(ll, key, node, ll.nodes[node].next)

\* del ll[key]
LinkedList_delitem(ll, key) ==
    IF ll.head = 0
    THEN [ll |-> ll, exc |-> "KeyError", item |-> << >>]
    ELSE LET prev == ll.head
         IN  IF ll.nodes[prev].key = key
             THEN LET l1 == [ll EXCEPT !.head = ll.nodes[prev].next]
                  IN  [ll |-> IF ll.nodes[prev].next = 0
                              THEN [l1 EXCEPT !.tail = l1.head] ELSE l1,
                       exc |-> "none",
                       item |-> << ll.nodes[prev].key, ll.nodes[prev].value >>]
             ELSE LinkedList_delitem_walk(ll, key, prev, ll.nodes[prev].next)

RECURSIVE LinkedList_pairs_from(_, _)
\* The <<key, value>> pairs reachable from node, in chain order.
LinkedList_pairs_from(ll, node) ==
    IF node = 0 THEN << >>
    ELSE << << ll.nodes[node].key, ll.nodes[node].value >> >>
         \o LinkedList_pairs_from(ll, ll.nodes[node].next)

LinkedList_pairs(ll) == LinkedList_pairs_from(ll, ll.head)

\* The keys of a sequence of <<key, value>> pairs.
Ids(ps) == [k \in 1..Len(ps) |-> ps[k][1]]

InSeq(x, seq) == \E k \in 1..Len(seq) : seq[k] = x

RECURSIVE LinkedList_chain(_, _)
\* The nodes reachable from node, in chain order.
LinkedList_chain(ll, node) ==
    IF node = 0 THEN << >>
    ELSE << node >> \o LinkedList_chain(ll, ll.nodes[node].next)

\* The same list with its nodes renumbered in chain order and the nodes no
\* longer reachable from head or tail dropped: the code never observes the
\* address of a node, only the links between nodes.
LinkedList_normal(ll) ==
    LET chain == LinkedList_chain(ll, ll.head)
        stale == IF ll.tail # 0 /\ \A k \in 1..Len(chain) : chain[k] # ll.tail
                 THEN << ll.tail >> ELSE << >>
        order == chain \o stale
        pos(id) == IF \E k \in 1..Len(order) : order[k] = id
                   THEN CHOOSE k \in 1..Len(order) : order[k] = id
                   ELSE 0
    IN  [nodes |-> [k \in 1..Len(order) |->
                       [ll.nodes[order[k]] EXCEPT !.next = pos(@)]],
         head |-> pos(ll.head), tail |-> pos(ll.tail)]

----------------------------------------------------------------------------
(* hpack/table.py (not at hand): QPACKHeaderTable, from sections 3 and 4.3 *)
(* of the specification.  entries holds the live entries, oldest first;    *)
(* largest_ref is the insert count, the absolute index of the newest       *)
(* entry (the first insertion has absolute index 1).                       *)

\* The capacity a table is constructed with.
DEFAULT_SIZE == 4096

\* A stand-in for the static table, indexed from 0: (":", "/") and ("a", "").
StaticTable == << [name |-> << 58 >>, value |-> << 47 >>],
                  [name |-> << 97 >>, value |-> << >>] >>

table_entry_size(name, value) == 32 + Len(name) + Len(value)

RECURSIVE EntriesSize(_)
EntriesSize(entries) ==
    IF entries = << >> THEN 0
    ELSE table_entry_size(entries[1].name, entries[1].value)
         + EntriesSize(Tail(entries))

current_size(tab) == EntriesSize(tab.entries)

QPACKHeaderTable_init ==
    [entries |-> << >>, largest_ref |-> 0, maxsize |-> DEFAULT_SIZE,
     resized |-> FALSE]

RECURSIVE Shrink(_, _)
\* Evict oldest entries until the entries fit in limit bytes.
Shrink(entries, limit) ==
    IF entries = << >> \/ EntriesSize(entries) <= limit THEN entries
    ELSE Shrink(Tail(entries), limit)

\* get(absolute_index, is_static): the entry, or INVALID_REF.
get_by_index(tab, index, static) ==
    IF static
    THEN IF index >= 0 /\ index < Len(StaticTable)
         THEN [exc |-> "none", name |-> StaticTable[index + 1].name,
               value |-> StaticTable[index + 1].value]
         ELSE [exc |-> "INVALID_REF", name |-> << >>, value |-> << >>]
    ELSE LET oldest == tab.largest_ref - Len(tab.entries) + 1
         IN  IF index >= oldest /\ index <= tab.largest_ref
             THEN [exc |-> "none", name |-> tab.entries[index - oldest + 1].name,
                   value |-> tab.entries[index - oldest + 1].value]
             ELSE [exc |-> "INVALID_REF", name |-> << >>, value |-> << >>]

\* insert(name, value): evicts oldest entries until the new entry fits;
\* TABLE_FULL when the entry alone exceeds the capacity.
table_add(tab, name, value) ==
    LET size == table_entry_size(name, value)
    IN  IF size > tab.maxsize
        THEN [tab |-> [tab EXCEPT !.entries = << >>], exc |-> "TABLE_FULL"]
        ELSE [tab |-> [tab EXCEPT
                         !.entries = Append(Shrink(tab.entries, tab.maxsize - size),
                                            [name |-> name, value |-> value]),
                         !.largest_ref = tab.largest_ref + 1],
              exc |-> "none"]

\* The assignment header_table.maxsize = value: commits the capacity, notes
\* a change in resized and evicts down to the new capacity.
table_set_maxsize(tab, value) ==
    [tab EXCEPT !.maxsize = value,
                !.resized = (value # tab.maxsize),
                !.entries = Shrink(tab.entries, value)]

----------------------------------------------------------------------------
(* hpack/hpack.py (not at hand): decode_integer, from section 4.1.         *)

\* More than this many continuation bytes is an overflow.
MaxContinuation == 8

RECURSIVE decode_integer_cont(_, _, _, _, _)
\* The continuation bytes from 1-based position i on; n bytes taken so far.
decode_integer_cont(data, i, number, shift, n) ==
    IF i > Len(data) \/ n >= MaxContinuation
    THEN [exc |-> "MALFORMED", number |-> 0, consumed |-> 0]
    ELSE IF data[i] >= 128
         THEN decode_integer_cont(data, i + 1,
                                  number + (data[i] - 128) * Pow2(shift),
                                  shift + 7, n + 1)
         ELSE [exc |-> "none", number |-> number + data[i] * Pow2(shift),
               consumed |-> i]

\* (number, consumed): consumed is the count of bytes read.
decode_integer(data, prefix_bits) ==
    IF data = << >>
    THEN [exc |-> "MALFORMED", number |-> 0, consumed |-> 0]
    ELSE LET number == data[1] % Pow2(prefix_bits)
         IN  IF number = Pow2(prefix_bits) - 1
             THEN decode_integer_cont(data, 2, number, 0, 0)
             ELSE [exc |-> "none", number |-> number, consumed |-> 1]

----------------------------------------------------------------------------
(* hpack/huffman_table.py (not at hand): decode_huffman, from section 4.2, *)
(* over the part of the HPACK code table made of the ten 5-bit codes       *)
(* 00000..01001 for "0", "1", "2", "a", "c", "e", "i", "o", "s", "t".  A   *)
(* code outside that part is reported as MALFORMED.                        *)

HuffmanSymbols == << 48, 49, 50, 97, 99, 101, 105, 111, 115, 116 >>

RECURSIVE BitsOf(_)
\* The bits of a byte string, most significant bit of each byte first.
BitsOf(data) ==
    IF data = << >> THEN << >>
    ELSE [k \in 1..8 |-> (data[1] \div Pow2(8 - k)) % 2] \o BitsOf(Tail(data))

RECURSIVE decode_huffman_bits(_)
decode_huffman_bits(bits) ==
    IF Len(bits) < 5
    THEN IF \A k \in 1..Len(bits) : bits[k] = 1
         THEN [exc |-> "none", value |-> << >>]
         ELSE [exc |-> "MALFORMED", value |-> << >>]
    ELSE LET code == 16 * bits[1] + 8 * bits[2] + 4 * bits[3] + 2 * bits[4] + bits[5]
         IN  IF code < Len(HuffmanSymbols)
             THEN LET rest == decode_huffman_bits(SubSeq(bits, 6, Len(bits)))
                  IN  [exc |-> rest.exc,
                       value |-> << HuffmanSymbols[code + 1] >> \o rest.value]
             ELSE IF Len(bits) <= 7 /\ \A k \in 1..Len(bits) : bits[k] = 1
             THEN [exc |-> "none", value |-> << >>]
             ELSE [exc |-> "MALFORMED", value |-> << >>]

decode_huffman(value) == decode_huffman_bits(BitsOf(value))

----------------------------------------------------------------------------
(* hpack/qpack.py: the QUIC variable-length integer of acknowledgements.   *)

RECURSIVE bit_length(_)
bit_length(n) == IF n = 0 THEN 0 ELSE 1 + bit_length(n \div 2)

\* struct.calcsize of the formats used.
StructSize(f) ==
    CASE f = "!B" -> 1 [] f = "!H" -> 2 [] f = "!I" -> 4 [] f = "!L" -> 4

\* Lines 41-58: the test for one byte is a plain `if`, not chained to the
\* `if word_length <= 2` after it, which runs for one byte too.  Line 64
\* allocates word_length bytes and line 65 packs with format f, which needs
\* StructSize(f) bytes and a value of at most 8 * StructSize(f) bits.  Line 66
\* then indexes and assigns into f, which is the format string and not the
\* buffer: TypeError.  Line 67, the return, is never reached.
encode_quic_int(integer) ==
    IF integer < 0
    THEN [exc |-> "ValueError", bytes |-> << >>]
    ELSE LET wl == (bit_length(integer) + 2 + 7) \div 8
             sel == IF wl <= 2 THEN [f |-> "!H", size |-> 1, word_length |-> wl]
                    ELSE IF wl <= 4 THEN [f |-> "!I", size |-> 2, word_length |-> 4]
                    ELSE IF wl <= 8 THEN [f |-> "!L", size |-> 3, word_length |-> 8]
                    ELSE [f |-> "", size |-> 0, word_length |-> wl]
         IN  IF sel.f = ""
             THEN [exc |-> "ValueError", bytes |-> << >>]
             ELSE IF sel.word_length < StructSize(sel.f)
                     \/ bit_length(integer) > 8 * StructSize(sel.f)
             THEN [exc |-> "struct.error", bytes |-> << >>]
             ELSE [exc |-> "TypeError", bytes |-> << >>]

\* Lines 68-84.  struct.unpack wants exactly StructSize(f) bytes and gives
\* back a tuple; line 83 subtracts an int from that tuple: TypeError.  The
\* 8-byte form is unpacked with "!I", a 4-byte format.  Line 84, the
\* return, is never reached.
decode_quic_int(data) ==
    IF data = << >>
    THEN [exc |-> "IndexError", value |-> 0]
    ELSE LET size == data[1] \div 64
             f == CASE size = 0 -> "!B" [] size = 1 -> "!H"
                    [] size = 2 -> "!I" [] size = 3 -> "!I"
         IN  IF Len(data) # StructSize(f)
             THEN [exc |-> "struct.error", value |-> 0]
             ELSE [exc |-> "TypeError", value |-> 0]

----------------------------------------------------------------------------
(* hpack/exceptions.py: the exception classes.                             *)

\* The subclasses of QPACKStreamError, itself included.
QPACKStreamErrors ==
    {"QPACKStreamError", "QPACKDecodingError", "QPACKInvalidTableSizeError",
     "QPACKOverflowError"}

----------------------------------------------------------------------------
(* hpack/qpack.py: the module-level decoding functions.  Each takes the    *)
(* bytes from the current position on.                                     *)

\* Lines 481-486 of decode_literal, given the flag and the length read by
\* lines 479-480.
decode_literal_string(data, huff, int) ==
    LET length == int.number
        value == IF int.consumed + length > Len(data)
                 THEN From(data, int.consumed + 1)
                 ELSE SubSeq(data, int.consumed + 1, int.consumed + length)
    IN  IF int.exc # "none"
        THEN [exc |-> int.exc, value |-> << >>, consumed |-> 0]
        ELSE IF Len(value) # length
        THEN [exc |-> "QPACKDecodingError", value |-> << >>, consumed |-> 0]
        ELSE IF huff
        THEN [exc |-> decode_huffman(value).exc,
              value |-> decode_huffman(value).value,
              consumed |-> int.consumed + length]
        ELSE [exc |-> "none", value |-> value,
              consumed |-> int.consumed + length]

decode_literal(data, prefix) ==
    IF data = << >>
    THEN [exc |-> "IndexError", value |-> << >>, consumed |-> 0]
    ELSE decode_literal_string(data, BitSet(data[1], prefix - 1),
                               decode_integer(data, prefix - 1))

\* decode_index without the test of line 494: an index above the largest
\* reference of the block is handed on.
decode_index_unchecked(data, prefix, largest_ref, base) ==
    LET static == BitSet(data[1], prefix - 1)
        int == decode_integer(data, prefix - 1)
        index == IF static THEN int.number ELSE base - int.number
    IN  IF int.exc # "none"
        THEN [exc |-> int.exc, index |-> 0, static |-> static, consumed |-> 0]
        ELSE [exc |-> "none", index |-> index, static |-> static,
              consumed |-> int.consumed]

decode_index(data, prefix, largest_ref, base) ==
    LET static == BitSet(data[1], prefix - 1)
        int == decode_integer(data, prefix - 1)
        index == IF static THEN int.number ELSE base - int.number
    IN  IF int.exc # "none"
        THEN [exc |-> int.exc, index |-> 0, static |-> static, consumed |-> 0]
        ELSE IF ~static /\ index > largest_ref
        THEN [exc |-> "QPACKDecodingError", index |-> index, static |-> static,
              consumed |-> 0]
        ELSE [exc |-> "none", index |-> index, static |-> static,
              consumed |-> int.consumed]

decode_index_post(data, prefix, largest_ref, base) ==
    LET int == decode_integer(data, prefix)
        index == int.number + base + 1
    IN  IF int.exc # "none"
        THEN [exc |-> int.exc, index |-> 0, static |-> FALSE, consumed |-> 0]
        ELSE IF index > largest_ref
        THEN [exc |-> "QPACKDecodingError", index |-> index, static |-> FALSE,
              consumed |-> 0]
        ELSE [exc |-> "none", index |-> index, static |-> FALSE,
              consumed |-> int.consumed]

----------------------------------------------------------------------------
(* hpack/qpack.py: Decoder, the header-block side.  A header is a record   *)
(* name, value, indexable: indexable is FALSE for NeverIndexedHeaderTuple. *)

\* x & m for the mask m of the n high bits of a byte.
HighBits(x, n) == (x \div Pow2(8 - n)) * Pow2(8 - n)

NoHeader == [name |-> << >>, value |-> << >>, indexable |-> TRUE]

\* What a representation handler gives back: looked holds the dynamic
\* absolute index handed to get_by_index, when one was.
Parsed(exc, header, consumed, looked) ==
    [exc |-> exc, header |-> header, consumed |-> consumed, looked |-> looked]

Decoder_decode_prefix(data) ==
    LET lr == decode_integer(data, 8)
        rest == From(data, lr.consumed + 1)
        sign == BitSet(rest[1], 7)
        bd == decode_integer(rest, 7)
        fail(e) == [exc |-> e, largest_ref |-> 0, base |-> 0, consumed |-> 0]
    IN  IF lr.exc # "none" THEN fail(lr.exc)
        ELSE IF rest = << >> THEN fail("IndexError")
        ELSE IF bd.exc # "none" THEN fail(bd.exc)
        ELSE IF ~sign
        THEN [exc |-> "none", largest_ref |-> lr.number,
              base |-> lr.number + bd.number,
              consumed |-> lr.consumed + bd.consumed]
        ELSE IF bd.number # 0
        THEN [exc |-> "none", largest_ref |-> lr.number,
              base |-> lr.number - bd.number,
              consumed |-> lr.consumed + bd.consumed]
        ELSE fail("QPACKDecodingError")

Decoder_generate_ack(stream_id) == encode_quic_int(stream_id)

\* _check_blocking with >= where line 403 has >: it parks a block whose
\* largest reference equals the insert count.
Decoder_check_blocking_ge(tab, bl, stream_id, largest_ref) ==
    IF largest_ref >= tab.largest_ref
    THEN [blocked |-> TRUE,
          ll |-> LinkedList_insert(bl, stream_id, largest_ref).ll,
          exc |-> LinkedList_insert(bl, stream_id, largest_ref).exc]
    ELSE [blocked |-> FALSE, ll |-> bl, exc |-> "none"]

\* A _check_blocking that also parks a block behind any stream already
\* parked.
Decoder_check_blocking_queued(tab, bl, stream_id, largest_ref) ==
    IF largest_ref > tab.largest_ref \/ bl.head # 0
    THEN [blocked |-> TRUE,
          ll |-> LinkedList_insert(bl, stream_id, largest_ref).ll,
          exc |-> LinkedList_insert(bl, stream_id, largest_ref).exc]
    ELSE [blocked |-> FALSE, ll |-> bl, exc |-> "none"]

Decoder_check_blocking(tab, bl, stream_id, largest_ref) ==
    IF largest_ref > tab.largest_ref
    THEN [blocked |-> TRUE,
          ll |-> LinkedList_insert(bl, stream_id, largest_ref).ll,
          exc |-> LinkedList_insert(bl, stream_id, largest_ref).exc]
    ELSE [blocked |-> FALSE, ll |-> bl, exc |-> "none"]

\* _assert_valid_table_size without its test.
Decoder_assert_valid_table_size_skipped(tab, max_allowed) == "none"

Decoder_assert_valid_table_size(tab, max_allowed) ==
    IF tab.maxsize > max_allowed THEN "QPACKInvalidTableSizeError" ELSE "none"

\* Line 416 of _decode_indexed, given the index read by lines 412-415.
Decoder_decode_indexed_get(tab, ix) ==
    LET looked == IF ix.static THEN << >> ELSE << ix.index >>
        e == get_by_index(tab, ix.index, ix.static)
    IN  IF ix.exc # "none" THEN Parsed(ix.exc, NoHeader, 0, << >>)
        ELSE IF e.exc # "none" THEN Parsed(e.exc, NoHeader, 0, looked)
        ELSE Parsed("none",
                    [name |-> e.name, value |-> e.value, indexable |-> TRUE],
                    ix.consumed, looked)

Decoder_decode_indexed(tab, data, largest_ref, base, post_base) ==
    Decoder_decode_indexed_get(tab,
        IF post_base THEN decode_index_post(data, 4, largest_ref, base)
        ELSE decode_index(data, 7, largest_ref, base))

\* Line 422 on of _decode_literal_wo_name_ref, given the flag and the name
\* of lines 420-421.
Decoder_decode_literal_wo_name_ref_value(data, never_index, name) ==
    LET value == decode_literal(From(data, name.consumed + 1), 8)
    IN  IF name.exc # "none" THEN Parsed(name.exc, NoHeader, 0, << >>)
        ELSE IF value.exc # "none" THEN Parsed(value.exc, NoHeader, 0, << >>)
        ELSE Parsed("none",
                    [name |-> name.value, value |-> value.value,
                     indexable |-> ~never_index],
                    name.consumed + value.consumed, << >>)

Decoder_decode_literal_wo_name_ref(data) ==
    Decoder_decode_literal_wo_name_ref_value(data, BitSet(data[1], 4),
                                             decode_literal(data, 4))

\* Line 438 on of _decode_literal_name_ref, given the flag and the index
\* of lines 432-437.
Decoder_decode_literal_name_ref_get(tab, data, never_index, ix) ==
    LET looked == IF ix.static THEN << >> ELSE << ix.index >>
        e == get_by_index(tab, ix.index, ix.static)
        value == decode_literal(From(data, ix.consumed + 1), 8)
    IN  IF ix.exc # "none" THEN Parsed(ix.exc, NoHeader, 0, << >>)
        ELSE IF e.exc # "none" THEN Parsed(e.exc, NoHeader, 0, looked)
        ELSE IF value.exc # "none" THEN Parsed(value.exc, NoHeader, 0, looked)
        ELSE Parsed("none",
                    [name |-> e.name, value |-> value.value,
                     indexable |-> ~never_index],
                    ix.consumed + value.consumed, looked)

Decoder_decode_literal_name_ref(tab, data, largest_ref, base, post_base) ==
    Decoder_decode_literal_name_ref_get(tab, data,
        IF post_base THEN BitSet(data[1], 3) ELSE BitSet(data[1], 5),
        IF post_base THEN decode_index_post(data, 3, largest_ref, base)
        ELSE decode_index(data, 5, largest_ref, base))

\* Lines 327-345: the handler chosen by the first byte of a representation.
\* current & 0xE0 can never equal 0x30, so the third test never succeeds.
\* The if chain of lines 329-345: the handler the first byte of a
\* representation selects, "invalid" for the else branch.  The third test,
\* current & 0xE0 == 0x30, asks for a bit the mask has cleared.
Decoder_decode_handler(current) ==
    IF HighBits(current, 1) = 128 THEN "indexed"
    ELSE IF HighBits(current, 2) = 0 THEN "literal_name_ref"
    ELSE IF HighBits(current, 3) = 48 THEN "literal_wo_name_ref"
    ELSE IF HighBits(current, 4) = 80 THEN "literal_name_ref_post"
    ELSE IF HighBits(current, 4) = 64 THEN "indexed_post"
    ELSE "invalid"

Decoder_decode_one(tab, data, largest_ref, base) ==
    LET handler == Decoder_decode_handler(data[1])
    IN  CASE handler = "indexed" ->
                 Decoder_decode_indexed(tab, data, largest_ref, base, FALSE)
          [] handler = "literal_name_ref" ->
                 Decoder_decode_literal_name_ref(tab, data, largest_ref, base, FALSE)
          [] handler = "literal_wo_name_ref" ->
                 Decoder_decode_literal_wo_name_ref(data)
          [] handler = "literal_name_ref_post" ->
                 Decoder_decode_literal_name_ref(tab, data, largest_ref, base, TRUE)
          [] handler = "indexed_post" ->
                 Decoder_decode_indexed(tab, data, largest_ref, base, TRUE)
          [] handler = "invalid" ->
                 Parsed("QPACKDecodingError", NoHeader, 0, << >>)

\* The accumulators of the while loop of decode.  parsed (every header a
\* handler returned) and refs (every dynamic index looked up) are kept for
\* the properties; the code keeps headers, inflated_size, discard_headers.
DecodeAcc0 ==
    [exc |-> "none", headers |-> << >>, inflated_size |-> 0,
     discard_headers |-> FALSE, consumed |-> 0, refs |-> << >>,
     parsed |-> << >>]

\* Lines 347-358: the accumulators after the handler returned r.
Decoder_decode_collect(max_list, acc, r) ==
    LET size == acc.inflated_size
                + table_entry_size(r.header.name, r.header.value)
        acc1 == IF acc.discard_headers THEN acc
                ELSE IF size > max_list
                THEN [acc EXCEPT !.inflated_size = size,
                                 !.discard_headers = TRUE,
                                 !.headers = << >>]
                ELSE [acc EXCEPT !.inflated_size = size,
                                 !.headers = Append(@, r.header)]
    IN  [acc1 EXCEPT !.refs = @ \o r.looked, !.parsed = Append(@, r.header)]

RECURSIVE Decoder_decode_loop(_, _, _, _, _, _, _)
RECURSIVE Decoder_decode_loop_next(_, _, _, _, _, _, _, _)
\* Lines 324-358, from the 1-based position ci.  A header returned by a
\* handler is a 2-tuple and never falsy, so line 348 never discards.
Decoder_decode_loop(tab, max_list, data, largest_ref, base, ci, acc) ==
    IF ci > Len(data)
    THEN [acc EXCEPT !.consumed = ci - 1]
    ELSE Decoder_decode_loop_next(tab, max_list, data, largest_ref, base, ci,
             acc, Decoder_decode_one(tab, From(data, ci), largest_ref, base))

\* One turn of the loop, given what the handler of the turn gave back.
Decoder_decode_loop_next(tab, max_list, data, largest_ref, base, ci, acc, r) ==
    IF r.exc # "none"
    THEN [acc EXCEPT !.exc = r.exc, !.consumed = ci - 1,
                     !.refs = @ \o r.looked]
    ELSE Decoder_decode_loop(tab, max_list, data, largest_ref, base,
                             ci + r.consumed,
                             Decoder_decode_collect(max_list, acc, r))

\* Lines 368-374: what decode raises for an exception e raised in its try
\* block.  Both handlers call _generate_ack first.
Decoder_decode_except(e, stream_id) ==
    LET ack == Decoder_generate_ack(stream_id)
    IN  IF ack.exc # "none"
        THEN [exc |-> ack.exc, has_ack |-> FALSE, ack |-> << >>]
        ELSE IF e \in QPACKStreamErrors
        THEN [exc |-> e, has_ack |-> TRUE, ack |-> ack.bytes]
        ELSE [exc |-> "QPACKDecodingError", has_ack |-> TRUE, ack |-> ack.bytes]

\* The outcome of a call on the decoder: kind is "return", "blocked" (the
\* return of (None, None)) or "raise"; exc is the exception that leaves the
\* call and cause the one first raised inside it; checked tells that
\* _assert_valid_table_size was passed.
DecoderOutcome(kind, exc, cause, ackr, headers, resumed, acc, checked, tab, bl) ==
    [kind |-> kind, exc |-> exc, cause |-> cause,
     has_ack |-> ackr.has_ack, ack |-> ackr.ack,
     headers |-> headers, resumed |-> resumed,
     consumed |-> acc.consumed, refs |-> acc.refs, parsed |-> acc.parsed,
     checked |-> checked, tab |-> tab, bl |-> bl]

NoAck == [has_ack |-> FALSE, ack |-> << >>]

\* decode raising for the exception e first raised in it: what leaves the
\* call is decided by the except clauses, given as handled.
Decoder_decode_raise(e, handled, acc, checked, tab, ll) ==
    DecoderOutcome("raise", handled.exc, e, handled, << >>, << >>,
                   acc, checked, tab, ll)

\* Lines 359-367, given the accumulators the loop ended with.
Decoder_decode_finish(tab, max_allowed, bl, stream_id, body, size_exc, ack) ==
    IF body.exc # "none"
    THEN Decoder_decode_raise(body.exc,
             Decoder_decode_except(body.exc, stream_id), body, FALSE, tab, bl)
    ELSE IF size_exc # "none"
    THEN Decoder_decode_raise(size_exc,
             Decoder_decode_except(size_exc, stream_id), body, FALSE, tab, bl)
    ELSE IF body.discard_headers
    THEN Decoder_decode_raise("QPACKOverflowError",
             Decoder_decode_except("QPACKOverflowError", stream_id),
             body, TRUE, tab, bl)
    ELSE IF ack.exc # "none"
    THEN Decoder_decode_raise(ack.exc,
             Decoder_decode_except(ack.exc, stream_id), body, TRUE, tab, bl)
    ELSE DecoderOutcome("return", "none", "none",
                        [has_ack |-> TRUE, ack |-> ack.bytes],
                        body.headers, << >>, body, TRUE, tab, bl)

\* Lines 321-367, given the prefix p and what _check_blocking did at
\* line 321.
Decoder_decode_checked(tab, max_list, max_allowed, bl, data, stream_id, p, cb) ==
    IF cb.exc # "none"
    THEN Decoder_decode_raise(cb.exc, Decoder_decode_except(cb.exc, stream_id),
                              DecodeAcc0, FALSE, tab, cb.ll)
    ELSE IF cb.blocked
    THEN DecoderOutcome("blocked", "none", "none", NoAck, << >>, << >>,
                        DecodeAcc0, FALSE, tab, cb.ll)
    ELSE Decoder_decode_finish(tab, max_allowed, bl, stream_id,
             Decoder_decode_loop(tab, max_list, data, p.largest_ref, p.base,
                                 p.consumed + 1, DecodeAcc0),
             Decoder_assert_valid_table_size(tab, max_allowed),
             Decoder_generate_ack(stream_id))

\* Lines 320-367, given the prefix p read by line 319.
Decoder_decode_prefixed(tab, max_list, max_allowed, bl, data, stream_id, p) ==
    IF p.exc # "none"
    THEN Decoder_decode_raise(p.exc, Decoder_decode_except(p.exc, stream_id),
                              DecodeAcc0, FALSE, tab, bl)
    ELSE Decoder_decode_checked(tab, max_list, max_allowed, bl, data, stream_id,
             p, Decoder_check_blocking(tab, bl, stream_id, p.largest_ref))

Decoder_decode(tab, max_list, max_allowed, bl, data, stream_id) ==
    Decoder_decode_prefixed(tab, max_list, max_allowed, bl, data, stream_id,
                            Decoder_decode_prefix(data))

----------------------------------------------------------------------------
(* hpack/qpack.py: Decoder, the encoder-stream side.                       *)

\* table.add(name, value) for the value a decode_literal gave back.
Decoder_insert_add(tab, name, value, consumed) ==
    IF value.exc # "none"
    THEN [exc |-> value.exc, tab |-> tab, consumed |-> 0]
    ELSE [exc |-> table_add(tab, name, value.value).exc,
          tab |-> table_add(tab, name, value.value).tab,
          consumed |-> consumed + value.consumed]

\* Lines 450-454 of _insert_name_ref, given the index read by line 449.
Decoder_insert_name_ref_get(tab, data, ix) ==
    LET e == get_by_index(tab, ix.index, ix.static)
    IN  IF ix.exc # "none" THEN [exc |-> ix.exc, tab |-> tab, consumed |-> 0]
        ELSE IF e.exc # "none" THEN [exc |-> e.exc, tab |-> tab, consumed |-> 0]
        ELSE Decoder_insert_add(tab, e.name,
                 decode_literal(From(data, ix.consumed + 1), 8), ix.consumed)

Decoder_insert_name_ref(tab, data) ==
    Decoder_insert_name_ref_get(tab, data,
        decode_index(data, 7, tab.largest_ref, tab.largest_ref))

\* Lines 458-461 of _insert_wo_name_ref, given the name read by line 457.
Decoder_insert_wo_name_ref_value(tab, data, name) ==
    IF name.exc # "none" THEN [exc |-> name.exc, tab |-> tab, consumed |-> 0]
    ELSE Decoder_insert_add(tab, name.value,
             decode_literal(From(data, name.consumed + 1), 8), name.consumed)

Decoder_insert_wo_name_ref(tab, data) ==
    Decoder_insert_wo_name_ref_value(tab, data, decode_literal(data, 6))

\* Lines 464-467 of _insert_dup, given the integer read by line 463.
Decoder_insert_dup_get(tab, int) ==
    LET e == get_by_index(tab, tab.largest_ref - int.number, FALSE)
    IN  IF int.exc # "none" THEN [exc |-> int.exc, tab |-> tab, consumed |-> 0]
        ELSE IF e.exc # "none" THEN [exc |-> e.exc, tab |-> tab, consumed |-> 0]
        ELSE [exc |-> table_add(tab, e.name, e.value).exc,
              tab |-> table_add(tab, e.name, e.value).tab,
              consumed |-> int.consumed]

Decoder_insert_dup(tab, data) ==
    Decoder_insert_dup_get(tab, decode_integer(data, 5))

\* The setter of Decoder.header_table_size.
Decoder_set_header_table_size(tab, value) == table_set_maxsize(tab, value)

\* _dynamic_table_size_update without the test of line 470.
Decoder_dynamic_table_size_update_to_any(tab, max_allowed, int) ==
    IF int.exc # "none" THEN [exc |-> int.exc, tab |-> tab, consumed |-> 0]
    ELSE [exc |-> "none",
          tab |-> Decoder_set_header_table_size(tab, int.number),
          consumed |-> int.consumed]

\* Lines 470-475, given the integer read by line 469.
Decoder_dynamic_table_size_update_to(tab, max_allowed, int) ==
    IF int.exc # "none" THEN [exc |-> int.exc, tab |-> tab, consumed |-> 0]
    ELSE IF int.number > max_allowed
    THEN [exc |-> "QPACKInvalidTableSizeError", tab |-> tab, consumed |-> 0]
    ELSE [exc |-> "none",
          tab |-> Decoder_set_header_table_size(tab, int.number),
          consumed |-> int.consumed]

Decoder_dynamic_table_size_update(tab, max_allowed, data) ==
    Decoder_dynamic_table_size_update_to(tab, max_allowed,
                                         decode_integer(data, 5))

\* Lines 285-299: the instruction chosen by the first byte.
Decoder_update_one(tab, max_allowed, data) ==
    LET current == data[1]
    IN  IF HighBits(current, 1) = 128 THEN Decoder_insert_name_ref(tab, data)
        ELSE IF HighBits(current, 2) = 64
        THEN Decoder_insert_wo_name_ref(tab, data)
        ELSE IF HighBits(current, 3) = 32
        THEN Decoder_dynamic_table_size_update(tab, max_allowed, data)
        ELSE IF HighBits(current, 3) = 0 THEN Decoder_insert_dup(tab, data)
        ELSE [exc |-> "QPACKDecodingError", tab |-> tab, consumed |-> 0]

RECURSIVE Decoder_update_loop(_, _, _, _)
RECURSIVE Decoder_update_loop_next(_, _, _, _)
\* Lines 283-300, from the 1-based position ci: the table as the
\* instructions executed so far leave it.
Decoder_update_loop(tab, max_allowed, data, ci) ==
    IF ci > Len(data)
    THEN [exc |-> "none", tab |-> tab, consumed |-> ci - 1]
    ELSE Decoder_update_loop_next(max_allowed, data, ci,
             Decoder_update_one(tab, max_allowed, From(data, ci)))

\* One turn of the loop, given what the instruction of the turn gave back.
Decoder_update_loop_next(max_allowed, data, ci, r) ==
    IF r.exc # "none"
    THEN [exc |-> r.exc, tab |-> r.tab, consumed |-> ci - 1]
    ELSE Decoder_update_loop(r.tab, max_allowed, data, ci + r.consumed)

\* Line 410, given what popMany returned: it returns None, and iterating
\* None raises TypeError.
Decoder_resume_streams_of(r) ==
    IF r.result = "None"
    THEN [exc |-> "TypeError", ll |-> r.ll, ids |-> << >>]
    ELSE [exc |-> "none", ll |-> r.ll, ids |-> Ids(r.result)]

Decoder_resume_streams(tab, bl) ==
    Decoder_resume_streams_of(LinkedList_popMany(bl, tab.largest_ref))

\* Lines 303-306: a QPACKStreamError is re-raised; for any other exception
\* raise_from is called with one argument instead of two: TypeError.
Decoder_update_except(e) == IF e \in QPACKStreamErrors THEN e ELSE "TypeError"

\* update raising the exception e.
Decoder_update_raise(e, lp, checked, ll) ==
    DecoderOutcome("raise", Decoder_update_except(e), e, NoAck, << >>, << >>,
                   [DecodeAcc0 EXCEPT !.consumed = lp.consumed], checked,
                   lp.tab, ll)

\* Line 302, given what _generate_ack(0) and _resume_streams do.
Decoder_update_return(bl, lp, ack, rs) ==
    IF ack.exc # "none" THEN Decoder_update_raise(ack.exc, lp, TRUE, bl)
    ELSE IF rs.exc # "none" THEN Decoder_update_raise(rs.exc, lp, TRUE, rs.ll)
    ELSE DecoderOutcome("return", "none", "none",
                        [has_ack |-> TRUE, ack |-> ack.bytes], << >>, rs.ids,
                        [DecodeAcc0 EXCEPT !.consumed = lp.consumed], TRUE,
                        lp.tab, rs.ll)

\* Line 302: the integer update hands to _generate_ack.
UpdateAckArgument == 0

\* Lines 301-302, given what the loop did.
Decoder_update_finish(max_allowed, bl, lp, size_exc) ==
    IF lp.exc # "none" THEN Decoder_update_raise(lp.exc, lp, FALSE, bl)
    ELSE IF size_exc # "none" THEN Decoder_update_raise(size_exc, lp, FALSE, bl)
    ELSE Decoder_update_return(bl, lp, Decoder_generate_ack(UpdateAckArgument),
                               Decoder_resume_streams(lp.tab, bl))

\* Lines 301-306, given what the loop did.
Decoder_update_looped(max_allowed, bl, lp) ==
    Decoder_update_finish(max_allowed, bl, lp,
                          Decoder_assert_valid_table_size(lp.tab, max_allowed))

Decoder_update(tab, max_allowed, bl, data) ==
    Decoder_update_looped(max_allowed, bl,
                          Decoder_update_loop(tab, max_allowed, data, 1))

----------------------------------------------------------------------------
(* hpack/qpack.py: Encoder.                                                *)

\* The attributes Encoder.__init__ sets (lines 92-98) and the methods and
\* properties the class defines (lines 100-209).  There is no method that
\* takes a section acknowledgement.
EncoderAttributes ==
    {"header_table", "huffman_coder", "table_size_changes", "unacked_streams"}

EncoderMethods == {"header_table_size", "encode", "_encode_one"}

\* self.largest_ack_ref, the known received count read by line 202: no
\* line of the class assigns it.
Encoder_largest_ack_ref ==
    IF "largest_ack_ref" \in EncoderAttributes \cup EncoderMethods
    THEN [exc |-> "none", value |-> 0]
    ELSE [exc |-> "AttributeError", value |-> 0]

\* lookup of section 4.3 (QPACKHeaderTable.search is not at hand): "None",
\* or the kind of match.  start limits the dynamic entries searched.
table_search(tab, name, value, start) ==
    LET all == StaticTable \o tab.entries
    IN  IF \E i \in 1..Len(all) : all[i].name = name /\ all[i].value = value
        THEN "NAME_VALUE"
        ELSE IF \E i \in 1..Len(all) : all[i].name = name
        THEN "NAME_ONLY"
        ELSE "None"

\* The setter of Encoder.header_table_size.  head is None while the tracker
\* is empty, and None has no attribute value.
Encoder_set_header_table_size(tab, changes, unacked, value) ==
    IF unacked.head = 0
    THEN [exc |-> "AttributeError", tab |-> tab, changes |-> changes]
    ELSE IF value < tab.largest_ref - unacked.nodes[unacked.head].value
    THEN [exc |-> "QPACKOverflowError", tab |-> tab, changes |-> changes]
    ELSE [exc |-> "none", tab |-> table_set_maxsize(tab, value),
          changes |-> IF table_set_maxsize(tab, value).resized
                      THEN Append(changes, value) ELSE changes]

\* Lines 200-209.  Encoder has no attribute largest_ack_ref and no method
\* _encode_literal; with a match the method falls off its end: None.
Encoder_encode_one(tab, header, sensitive, can_block, huffman) ==
    IF ~can_block
    THEN [exc |-> "AttributeError", encoded |-> "None"]
    ELSE IF table_search(tab, header.name, header.value, "None") = "None"
    THEN [exc |-> "AttributeError", encoded |-> "None"]
    ELSE [exc |-> "none", encoded |-> "None"]

\* Line 191: _to_bytes is neither defined in qpack.py nor imported into it.
Encoder_to_bytes(x) == [exc |-> "NameError", value |-> x]

RECURSIVE Encoder_encode_headers(_, _, _, _, _)
\* Lines 184-192: the loop over the headers; header_block is the list of
\* what _encode_one returned.
Encoder_encode_headers(tab, headers, huffman, can_block, header_block) ==
    IF headers = << >>
    THEN [exc |-> "none", header_block |-> header_block]
    ELSE LET h == Head(headers)
             sensitive == ~h.indexable
             name == Encoder_to_bytes(h.name)
             value == Encoder_to_bytes(h.value)
             one == Encoder_encode_one(tab, [name |-> name.value, value |-> value.value],
                                       sensitive, can_block, huffman)
         IN  IF name.exc # "none"
             THEN [exc |-> name.exc, header_block |-> header_block]
             ELSE IF value.exc # "none"
             THEN [exc |-> value.exc, header_block |-> header_block]
             ELSE IF one.exc # "none"
             THEN [exc |-> one.exc, header_block |-> header_block]
             ELSE Encoder_encode_headers(tab, Tail(headers), huffman, can_block,
                                         Append(header_block, one.encoded))

\* Lines 117-198.  Encoder has no method _encode_table_size_change; joining
\* a list that holds None raises TypeError.  encode returns one byte string,
\* the header block; there is no encoder-stream output.
Encoder_encode(tab, headers, huffman, can_block) ==
    LET hs == Encoder_encode_headers(tab, headers, huffman, can_block, << >>)
    IN  IF tab.resized THEN [exc |-> "AttributeError", block |-> << >>]
        ELSE IF hs.exc # "none" THEN [exc |-> hs.exc, block |-> << >>]
        ELSE IF hs.header_block # << >> THEN [exc |-> "TypeError", block |-> << >>]
        ELSE [exc |-> "none", block |-> << >>]

----------------------------------------------------------------------------
(* The calls made on the two objects, and what they are given.             *)

\* Encoder-stream bytes given to Decoder.update.
UpdateInputs ==
    { << 65, 97, 1, 120 >>,        \* insert without name reference: ("a", "x")
      << 193, 1, 120 >>,           \* insert, name of static entry 1: ("a", "x")
      << 128, 1, 120 >>,           \* insert, name of the newest dynamic entry
      << 0 >>,                     \* duplicate the newest dynamic entry
      << 32 >>,                    \* set capacity 0
      << 63, 9 >>,                 \* set capacity 40
      << 63, 233, 38 >>,           \* set capacity 5000
      << 65, 97, 1, 120, 65 >> }   \* an insert, then a truncated instruction

\* Header blocks given to Decoder.decode: the largest reference, the sign
\* and delta of the base, then the representations.
DecodeInputs ==
    { << >>,                       \* nothing
      << 1 >>,                     \* a prefix cut after the largest reference
      << 1, 128 >>,                \* largest reference 1, base delta -0
      << 0, 0, 193 >>,             \* static entry 1
      << 0, 0, 193, 193, 193 >>,   \* three headers, 99 bytes
      << 0, 0, 193, 193, 193, 96 >>,  \* the same, then an invalid first byte
      << 0, 0, 16, 1, 122 >>,      \* literal, name of static entry 0
      << 0, 0, 48, 129, 31 >>,     \* the same never indexed, Huffman value "a"
      << 0, 0, 129 >>,             \* base 0, index 1: absolute index -1
      << 1, 0, 128 >>,             \* base 1, index 0: absolute index 1
      << 1, 1, 128 >>,             \* base 2, index 0: absolute index 2 > 1
      << 2, 0, 128, 129 >>,        \* base 2: absolute indices 2 and 1
      << 2, 129, 64 >>,            \* base 1, post-base index 0: absolute index 2
      << 2, 129, 80, 1, 122 >> }   \* literal, post-base name of entry 2

\* Stream identifiers given to Decoder.decode.
StreamIds == {0, 1}

\* The value the application assigns to Decoder.header_table_size and to
\* Encoder.header_table_size.
AppTableSizes == {40}

\* The value the application assigns to Decoder.max_allowed_table_size.
AppMaxAllowedSizes == {30}

\* Header lists given to Encoder.encode.
EncodeInputs ==
    { << >>,
      << [name |-> << 58 >>, value |-> << 47 >>, indexable |-> TRUE],
         [name |-> << 97 >>, value |-> << 120 >>, indexable |-> FALSE] >>,
      << [name |-> << 98 >>, value |-> << 121 >>, indexable |-> TRUE] >> }

\* The recorded outcome of a call: the object and the method called, and of
\* the outcome its kind, the exception leaving the call, the exception first
\* raised in it, whether an acknowledgement came with it, the dynamic
\* indices looked up, whether the table-size check was passed, and the
\* bytes an encode returned.
Result(obj, op, out, block) ==
    [obj |-> obj, op |-> op, kind |-> out.kind, exc |-> out.exc,
     cause |-> out.cause, has_ack |-> out.has_ack, refs |-> out.refs,
     checked |-> out.checked, block |-> block]

\* The outcome of a call that parses nothing.
\* The keys and values the owner of the list passes to it.
TrackerKeys == {0, 1}
TrackerValues == {0, 1, 2}

\* The outcome of a call on the list: the call, the exception it raised and
\* the pairs it took out of the list.
TrackerResult(op, exc, taken) == [op |-> op, exc |-> exc, taken |-> taken]

\* live with one occurrence less of each pair of taken.
TrackerWithout(live, taken) ==
    [p \in DOMAIN live |->
        live[p] - Cardinality({k \in 1..Len(taken) : taken[k] = p})]

\* No lookup is running: the last one was op for key, and raised exc or
\* returned result.
LookupIdle(op, key, exc, result) ==
    [pc |-> "idle", op |-> op, key |-> key, value |-> 0, node |-> 0,
     passes |-> 0, exc |-> exc, result |-> result]

\* The call op(key[, value]) stands at the head of its while loop with the
\* local variable node; passes is the number of passes it has made through
\* the body, modulo 2.
LookupLoop(op, key, value, node) ==
    [pc |-> "loop", op |-> op, key |-> key, value |-> value, node |-> node,
     passes |-> 0, exc |-> "none", result |-> 0]

PlainOutcome(kind, exc) ==
    DecoderOutcome(kind, exc, exc, NoAck, << >>, << >>, DecodeAcc0, FALSE,
                   << >>, << >>)

Init ==
    /\ d_header_table = QPACKHeaderTable_init
    /\ d_max_header_list_size = HeaderListLimit
    /\ d_max_allowed_table_size = QPACKHeaderTable_init.maxsize
    /\ d_blocking_streams = LinkedList_init
    /\ e_header_table = QPACKHeaderTable_init
    /\ e_table_size_changes = << >>
    /\ e_unacked_streams = LinkedList_init
    /\ res = Result("none", "none", PlainOutcome("none", "none"), << >>)
    /\ tracker = LinkedList_init
    /\ tracker_live = [p \in TrackerKeys \X TrackerValues |-> 0]
    /\ tracker_res = TrackerResult("none", "none", << >>)
    /\ lookup = LookupIdle("none", 0, "none", 0)

\* What decoder.update(data) does to the decoder as it is now.
UpdateHere(data) ==
    Decoder_update(d_header_table, d_max_allowed_table_size,
                   d_blocking_streams, data)

\* What decoder.decode(data, stream_id) does to the decoder as it is now.
DecodeHere(stream_id, data) ==
    Decoder_decode(d_header_table, d_max_header_list_size,
                   d_max_allowed_table_size, d_blocking_streams,
                   data, stream_id)

\* What encoder.encode(headers, huffman, can_block) does to the encoder as
\* it is now.
EncodeHere(headers, huffman, can_block) ==
    Encoder_encode(e_header_table, headers, huffman, can_block)

\* Decoder.update(data)
Update(data) ==
    \E out \in {UpdateHere(data)} :
        /\ out.tab.largest_ref <= MaxInserts
        /\ d_header_table' = out.tab
        /\ d_blocking_streams' = LinkedList_normal(out.bl)
        /\ res' = Result("decoder", "update", out, << >>)
        /\ UNCHANGED << d_max_header_list_size, d_max_allowed_table_size, evars, tvars >>

\* Decoder.decode(data, stream_id).  The caller holds the block of a parked
\* stream until update resumes the stream, and decodes for it again only
\* then: no call is made for a stream the tracker holds.
Decode(stream_id, data) ==
    \E out \in {DecodeHere(stream_id, data)} :
        /\ ~InSeq(stream_id, Ids(LinkedList_pairs(d_blocking_streams)))
        /\ d_header_table' = out.tab
        /\ d_blocking_streams' = LinkedList_normal(out.bl)
        /\ res' = Result("decoder", "decode", out, << >>)
        /\ UNCHANGED << d_max_header_list_size, d_max_allowed_table_size, evars, tvars >>

\* decoder.header_table_size = value
DecoderSetHeaderTableSize(value) ==
    /\ d_header_table' = Decoder_set_header_table_size(d_header_table, value)
    /\ res' = Result("decoder", "set_header_table_size",
                     PlainOutcome("return", "none"), << >>)
    /\ UNCHANGED << d_max_header_list_size, d_max_allowed_table_size,
                    d_blocking_streams, evars, tvars >>

\* decoder.max_allowed_table_size = value
DecoderSetMaxAllowedTableSize(value) ==
    /\ d_max_allowed_table_size' = value
    /\ res' = Result("decoder", "set_max_allowed_table_size",
                     PlainOutcome("return", "none"), << >>)
    /\ UNCHANGED << d_header_table, d_max_header_list_size,
                    d_blocking_streams, evars, tvars >>

\* Encoder.encode(headers, huffman, can_block)
Encode(headers, huffman, can_block) ==
    \E out \in {EncodeHere(headers, huffman, can_block)} :
        /\ res' = Result("encoder", "encode",
                         PlainOutcome(IF out.exc = "none" THEN "return" ELSE "raise",
                                      out.exc),
                         out.block)
        /\ UNCHANGED << dvars, evars, tvars >>

\* encoder.header_table_size = value
EncoderSetHeaderTableSize(value) ==
    \E out \in {Encoder_set_header_table_size(e_header_table,
                   e_table_size_changes, e_unacked_streams, value)} :
        /\ e_header_table' = out.tab
        /\ e_table_size_changes' = out.changes
        /\ res' = Result("encoder", "set_header_table_size",
                         PlainOutcome(IF out.exc = "none" THEN "return" ELSE "raise",
                                      out.exc),
                         << >>)
        /\ UNCHANGED << dvars, e_unacked_streams, tvars >>

Next ==
    \/ \E data \in UpdateInputs : Update(data)
    \/ \E stream_id \in StreamIds, data \in DecodeInputs : Decode(stream_id, data)
    \/ \E value \in AppTableSizes : DecoderSetHeaderTableSize(value)
    \/ \E value \in AppMaxAllowedSizes : DecoderSetMaxAllowedTableSize(value)
    \/ \E headers \in EncodeInputs, can_block \in BOOLEAN :
           Encode(headers, TRUE, can_block)
    \/ \E value \in AppTableSizes : EncoderSetHeaderTableSize(value)

Spec == Init /\ [][Next]_vars

----------------------------------------------------------------------------
(* The LinkedList worked on directly, one call at a time.                  *)

\* tracker.insert(key, value)
TrackerInsert(key, value) ==
    \E out \in {LinkedList_insert(tracker, key, value)} :
        /\ Len(LinkedList_pairs(tracker)) < MaxTracked
        /\ tracker' = LinkedList_normal(out.ll)
        /\ tracker_live' = IF out.exc = "none"
                           THEN [tracker_live EXCEPT ![<< key, value >>] = @ + 1]
                           ELSE tracker_live
        /\ tracker_res' = TrackerResult("insert", out.exc, << >>)
        /\ UNCHANGED << dvars, evars, res, lookup >>

\* del tracker[key]
TrackerDelitem(key) ==
    \E out \in {LinkedList_delitem(tracker, key)} :
        /\ tracker' = LinkedList_normal(out.ll)
        /\ tracker_live' = IF out.exc = "none"
                           THEN TrackerWithout(tracker_live, << out.item >>)
                           ELSE tracker_live
        /\ tracker_res' = TrackerResult("delitem", out.exc,
                              IF out.exc = "none" THEN << out.item >> ELSE << >>)
        /\ UNCHANGED << dvars, evars, res, lookup >>

\* tracker.popSmallest()
TrackerPopSmallest ==
    \E out \in {LinkedList_popSmallest(tracker)} :
        /\ tracker' = LinkedList_normal(out.ll)
        /\ tracker_live' = IF out.exc = "none"
                           THEN TrackerWithout(tracker_live, << out.item >>)
                           ELSE tracker_live
        /\ tracker_res' = TrackerResult("popSmallest", out.exc,
                              IF out.exc = "none" THEN << out.item >> ELSE << >>)
        /\ UNCHANGED << dvars, evars, res, lookup >>

\* tracker.popMany(value)
TrackerPopMany(value) ==
    \E out \in {LinkedList_popMany(tracker, value)},
       results \in {LinkedList_popMany_results(tracker, tracker.head, value)} :
        /\ tracker' = LinkedList_normal(out.ll)
        /\ tracker_live' = TrackerWithout(tracker_live, results)
        /\ tracker_res' = TrackerResult("popMany", "none", results)
        /\ UNCHANGED << dvars, evars, res, lookup >>

TrackerNext ==
    \/ \E key \in TrackerKeys, value \in TrackerValues : TrackerInsert(key, value)
    \/ \E key \in TrackerKeys : TrackerDelitem(key)
    \/ TrackerPopSmallest
    \/ \E value \in TrackerValues : TrackerPopMany(value)

TrackerSpec == Init /\ [][TrackerNext]_vars

----------------------------------------------------------------------------
(* __getitem__ and __setitem__ on the same list, one loop iteration at a   *)
(* time.  The caller is one thread: it makes no other call on the list     *)
(* while a lookup runs.                                                    *)

\* tracker[key]: line 114, node = self.head.
TrackerGetitem(key) ==
    /\ lookup.pc = "idle"
    /\ lookup' = LookupLoop("getitem", key, 0, tracker.head)
    /\ UNCHANGED << dvars, evars, res, tracker, tracker_live, tracker_res >>

\* tracker[key] = value: line 120, node = self.head.
TrackerSetitem(key, value) ==
    /\ lookup.pc = "idle"
    /\ lookup' = LookupLoop("setitem", key, value, tracker.head)
    /\ UNCHANGED << dvars, evars, res, tracker, tracker_live, tracker_res >>

\* One test of `while node` and one pass through the body of the loop
\* (lines 115-118 and 121-126).  The body has no node = node.next: when the
\* key of node is not the key looked for, the next pass finds node as this
\* one did.
TrackerLookupStep ==
    /\ lookup.pc = "loop"
    /\ IF lookup.node = 0
       THEN /\ lookup' = LookupIdle(lookup.op, lookup.key, "KeyError", 0)
            /\ UNCHANGED << tracker, tracker_live >>
       ELSE IF tracker.nodes[lookup.node].key = lookup.key
       THEN /\ lookup' = LookupIdle(lookup.op, lookup.key, "none",
                                    tracker.nodes[lookup.node].value)
            /\ IF lookup.op = "setitem"
               THEN /\ tracker' = [tracker EXCEPT
                                      !.nodes[lookup.node].value = lookup.value]
                    /\ tracker_live' =
                           [TrackerWithout(tracker_live,
                               << << lookup.key,
                                     tracker.nodes[lookup.node].value >> >>)
                            EXCEPT ![<< lookup.key, lookup.value >>] = @ + 1]
               ELSE UNCHANGED << tracker, tracker_live >>
       ELSE /\ lookup' = [lookup EXCEPT !.passes = 1 - @]
            /\ UNCHANGED << tracker, tracker_live >>
    /\ UNCHANGED << dvars, evars, res, tracker_res >>

LookupNext ==
    \/ lookup.pc = "idle" /\ TrackerNext
    \/ \E key \in TrackerKeys : TrackerGetitem(key)
    \/ \E key \in TrackerKeys, value \in TrackerValues : TrackerSetitem(key, value)
    \/ TrackerLookupStep

\* The interpreter goes on with the loop it is in.
LookupSpec == Init /\ [][LookupNext]_vars /\ WF_vars(TrackerLookupStep)

----------------------------------------------------------------------------
(* Vocabulary of the properties.                                           *)

\* The (stream_id, threshold) pairs parked in the decoder's tracker.
Pairs == LinkedList_pairs(d_blocking_streams)

\* seq without its k-th element.
RemoveAt(seq, k) == SubSeq(seq, 1, k - 1) \o SubSeq(seq, k + 1, Len(seq))

\* The pairs of ps whose threshold is at most, or above, insert_count.
Due(ps, insert_count) ==
    LET reached(pr) == pr[2] <= insert_count IN SelectSeq(ps, reached)

NotDue(ps, insert_count) ==
    LET ahead(pr) == pr[2] > insert_count IN SelectSeq(ps, ahead)

RECURSIVE ListSize(_)
\* The size of a header list: the sum of 32 + |name| + |value|.
ListSize(headers) ==
    IF headers = << >> THEN 0
    ELSE table_entry_size(headers[1].name, headers[1].value)
         + ListSize(Tail(headers))

\* The absolute index designates an entry the table still holds.
EntryExists(tab, index) ==
    index > tab.largest_ref - Len(tab.entries) /\ index <= tab.largest_ref

\* update(data) executes every instruction of data and passes the check of
\* the table size: nothing in data is at fault.
UpdateApplies(data) ==
    LET lp == Decoder_update_loop(d_header_table, d_max_allowed_table_size,
                                  data, 1)
    IN  /\ lp.exc = "none"
        /\ Decoder_assert_valid_table_size(lp.tab, d_max_allowed_table_size)
              = "none"

\* The errors that are faults of the bytes being decoded.
BlockFaults ==
    {"MALFORMED", "IndexError", "INVALID_REF", "TABLE_FULL"}
        \cup QPACKStreamErrors

\* decode(block, 0) on a decoder just constructed, which is the decoder that
\* has applied everything this encoder has put on the encoder stream:
\* encode returns the header block alone.
FreshDecode(block) ==
    Decoder_decode(QPACKHeaderTable_init, HeaderListLimit, DEFAULT_SIZE,
                   LinkedList_init, block, 0)

----------------------------------------------------------------------------
(* The properties.                                                         *)

\* C1: round trip.  For every header list H and both values of can_block,
\* encode returns a header block, and decode of that block on the decoder
\* that has applied the encoder stream returns exactly H, in order, each
\* header with its never-indexed flag.
C1_RoundTrip ==
    \A headers \in EncodeInputs, can_block \in BOOLEAN :
        LET enc == EncodeHere(headers, TRUE, can_block)
            dec == FreshDecode(enc.block)
        IN  /\ enc.exc = "none"
            /\ dec.kind = "return"
            /\ dec.headers = headers

\* C2: blocked decode.  In every decoder state, for every stream and every
\* block whose prefix declares a largest reference above the insert count,
\* decode returns BLOCKED with no acknowledgement and no header list, the
\* tracker gains exactly the pair (stream_id, largest reference) and the
\* table is as it was; for every other block the tracker holds the same
\* pairs after the call as before it.
C2_BlockedDecode ==
    \A stream_id \in StreamIds, data \in DecodeInputs :
        LET p == Decoder_decode_prefix(data)
            out == DecodeHere(stream_id, data)
            after == LinkedList_pairs(out.bl)
        IN  IF p.exc = "none" /\ p.largest_ref > d_header_table.largest_ref
            THEN /\ out.kind = "blocked"
                 /\ ~out.has_ack
                 /\ out.headers = << >>
                 /\ out.tab = d_header_table
                 /\ \E k \in 1..Len(after) :
                        /\ after[k] = << stream_id, p.largest_ref >>
                        /\ RemoveAt(after, k) = Pairs
            ELSE /\ out.kind # "blocked"
                 /\ after = Pairs

\* C2, reached: a decode has just returned BLOCKED and two streams are parked.
C2_Witness ==
    /\ res.op = "decode" /\ res.kind = "blocked"
    /\ Len(Pairs) = 2
    /\ Pairs[1][1] # Pairs[2][1]

\* C3: resume set.  An update whose instructions all apply returns, and
\* what it returns as resumed is exactly the stream ids of the parked pairs
\* whose threshold is at most the insert count after the update; exactly
\* those pairs leave the tracker.
C3_ResumeSet ==
    \A data \in UpdateInputs :
        LET out == UpdateHere(data)
        IN  UpdateApplies(data) =>
                /\ out.kind = "return"
                /\ out.resumed = Ids(Due(Pairs, out.tab.largest_ref))
                /\ LinkedList_pairs(out.bl) = NotDue(Pairs, out.tab.largest_ref)

\* C4: resume ordering.  When an update whose instructions all apply
\* reaches the threshold of parked streams, the list it returns names them
\* in ascending order of threshold.
C4_ResumeOrdering ==
    \A data \in UpdateInputs :
        LET out == UpdateHere(data)
            due == Due(Pairs, out.tab.largest_ref)
        IN  (UpdateApplies(data) /\ due # << >>) =>
                /\ out.kind = "return"
                /\ Len(out.resumed) = Len(due)
                /\ \A i, j \in 1..Len(due) :
                       i < j => /\ due[i][2] <= due[j][2]
                                /\ out.resumed[i] = due[i][1]
                                /\ out.resumed[j] = due[j][1]

\* C5: blocked then resume.  A pair parked in the tracker stays there
\* through every update that leaves the insert count below its threshold
\* and through every decode for another stream; an update that brings the
\* insert count to the threshold returns with the stream among resumed, and
\* a replay of a block with that largest reference for the stream is then
\* not BLOCKED and fails only for a fault of the block.
C5_BlockedThenResume ==
    \A k \in 1..Len(Pairs) :
        LET stream_id == Pairs[k][1]
            threshold == Pairs[k][2]
        IN  /\ \A data \in UpdateInputs :
                   LET out == UpdateHere(data)
                   IN  IF out.tab.largest_ref < threshold
                       THEN InSeq(Pairs[k], LinkedList_pairs(out.bl))
                       ELSE UpdateApplies(data) =>
                            /\ out.kind = "return"
                            /\ InSeq(stream_id, out.resumed)
                            /\ \A block \in DecodeInputs :
                                   LET replay ==
                                           Decoder_decode(out.tab,
                                               d_max_header_list_size,
                                               d_max_allowed_table_size,
                                               out.bl, block, stream_id)
                                   IN  Decoder_decode_prefix(block).largest_ref
                                           = threshold
                                       => /\ replay.kind # "blocked"
                                          /\ replay.kind = "raise"
                                             => replay.cause \in BlockFaults
            /\ \A other \in StreamIds \ {stream_id}, block \in DecodeInputs :
                   InSeq(Pairs[k], LinkedList_pairs(DecodeHere(other, block).bl))

\* C6: reference safety.  For every block that decode does not report as
\* BLOCKED, every dynamic index it hands to the table, pre-base or
\* post-base, is at most the insert count, and designates an entry the
\* table holds unless the call fails on it with the invalid-reference
\* error.
C6_ReferenceSafety ==
    \A stream_id \in StreamIds, data \in DecodeInputs :
        LET out == DecodeHere(stream_id, data)
        IN  out.kind # "blocked" =>
                \A k \in 1..Len(out.refs) :
                    /\ out.refs[k] <= d_header_table.largest_ref
                    /\ \/ EntryExists(d_header_table, out.refs[k])
                       \/ /\ k = Len(out.refs)
                          /\ out.kind = "raise"
                          /\ out.cause = "INVALID_REF"

\* C6, reached: a decode has looked up two dynamic entries, one through each
\* index of the table, and parsed its block to the end.
C6_Witness ==
    /\ res.op = "decode"
    /\ res.refs = << 2, 1 >>
    /\ res.checked
    /\ EntryExists(d_header_table, 1) /\ EntryExists(d_header_table, 2)

\* C7: no blocking.  Every encode with can_block false returns a header
\* block whose prefix declares a largest reference that the decoder which
\* has applied the encoder stream already has, and that decoder does not
\* report the block as BLOCKED.
C7_NoBlocking ==
    \A headers \in EncodeInputs :
        LET enc == EncodeHere(headers, TRUE, FALSE)
            p == Decoder_decode_prefix(enc.block)
        IN  /\ enc.exc = "none"
            /\ p.exc = "none"
            /\ p.largest_ref <= QPACKHeaderTable_init.largest_ref
            /\ FreshDecode(enc.block).kind # "blocked"

\* C8: per-stream errors.  Whenever decode raises, the error carries the
\* section acknowledgement of the stream, and the table and the tracker are
\* as they were before the call.
C8_ErrorCarriesAck ==
    \A stream_id \in StreamIds, data \in DecodeInputs :
        LET out == DecodeHere(stream_id, data)
        IN  out.kind = "raise" =>
                /\ out.has_ack
                /\ out.tab = d_header_table
                /\ LinkedList_pairs(out.bl) = Pairs

\* C9: header list bound.  decode returns a header list only of size at
\* most max_header_list_size; a block that parses to its end with a larger
\* list makes the call raise QPACKOverflowError, after the whole block was
\* consumed.
C9_HeaderListBound ==
    \A stream_id \in StreamIds, data \in DecodeInputs :
        LET out == DecodeHere(stream_id, data)
        IN  /\ out.kind = "return" =>
                ListSize(out.headers) <= d_max_header_list_size
            /\ ( /\ out.checked
                 /\ ListSize(out.parsed) > d_max_header_list_size )
               => /\ out.kind = "raise"
                  /\ out.exc = "QPACKOverflowError"
                  /\ out.consumed = Len(data)

CapacityInputs == {data \in UpdateInputs : HighBits(data[1], 3) = 32}

\* C11: decoder capacity change.  In every decoder state, an update made of
\* a set-capacity instruction whose size is above max_allowed_table_size
\* raises QPACKInvalidTableSizeError and leaves the table as it was; with a
\* size at or below max_allowed_table_size the table has that capacity
\* after the call.
C11_CapacityChange ==
    \A data \in CapacityInputs :
        LET size == decode_integer(data, 5)
            out == UpdateHere(data)
        IN  size.exc = "none" =>
                IF size.number > d_max_allowed_table_size
                THEN /\ out.kind = "raise"
                     /\ out.exc = "QPACKInvalidTableSizeError"
                     /\ out.tab = d_header_table
                ELSE out.tab.maxsize = size.number

\* C11, reached: with the maximum lowered to 30 an update has committed the
\* capacity 0, and a later update asking for more than 30 was refused.
C11_Witness ==
    /\ res.op = "update"
    /\ res.exc = "QPACKInvalidTableSizeError"
    /\ d_max_allowed_table_size < DEFAULT_SIZE
    /\ d_header_table.maxsize = 0

\* C12: ack bookkeeping.  Whenever every stream the encoder has encoded
\* for has been acknowledged, the tracker of unacknowledged streams is
\* empty and the known received count of the encoder is the insert count of
\* its table.  encode records no stream, so there is no state with a stream
\* left to acknowledge.
C12_AckBookkeeping ==
    /\ LinkedList_pairs(e_unacked_streams) = << >>
    /\ Encoder_largest_ack_ref.exc = "none"
    /\ Encoder_largest_ack_ref.value = e_header_table.largest_ref

\* The entries of tab that the unacknowledged streams of the tracker may
\* still refer to: those from the smallest parked reference on.
Referenced(tab, unacked) ==
    IF unacked.head = 0 THEN {}
    ELSE {i \in 1..tab.largest_ref :
              i >= unacked.nodes[unacked.head].value /\ EntryExists(tab, i)}

\* C13: eviction respects unacknowledged references.  In every encoder
\* state a change of the table size is either made or refused for the
\* unacknowledged references, and leaves every referenced entry in the
\* table; and a header that matches no entry is encoded: _encode_one gives
\* back its literal representation.
C13_EvictionRespectsUnacked ==
    /\ \A value \in AppTableSizes :
           LET out == Encoder_set_header_table_size(e_header_table,
                          e_table_size_changes, e_unacked_streams, value)
           IN  /\ out.exc \in {"none", "QPACKOverflowError"}
               /\ \A i \in Referenced(e_header_table, e_unacked_streams) :
                      EntryExists(out.tab, i)
    /\ \A headers \in EncodeInputs, can_block \in BOOLEAN :
           \A k \in 1..Len(headers) :
               LET one == Encoder_encode_one(e_header_table, headers[k],
                              ~headers[k].indexable, can_block, TRUE)
               IN  table_search(e_header_table, headers[k].name,
                                headers[k].value, "None") = "None"
                   => /\ one.exc = "none"
                      /\ one.encoded # "None"

\* C14: insert-count increment.  An update whose instructions all apply
\* returns, with acknowledgement bytes, and the integer encoded in them is
\* the number of entries the call inserted.
C14_InsertCountIncrement ==
    \A data \in UpdateInputs :
        LET out == UpdateHere(data)
        IN  UpdateApplies(data) =>
                /\ out.kind = "return"
                /\ out.has_ack
                /\ UpdateAckArgument
                       = out.tab.largest_ref - d_header_table.largest_ref

\* C15: pending capacity flush.  With no unacknowledged stream, a change of
\* the encoder's table size by the application is accepted and recorded as
\* pending, and the encode that follows returns, having emitted the
\* capacity instruction.
C15_PendingCapacityFlush ==
    \A value \in AppTableSizes :
        LET out == Encoder_set_header_table_size(e_header_table,
                       e_table_size_changes, e_unacked_streams, value)
            pending == table_set_maxsize(e_header_table, value)
            enc == Encoder_encode(pending, << >>, TRUE, FALSE)
        IN  /\ e_unacked_streams.head = 0 =>
                   /\ out.exc = "none"
                   /\ out.tab = pending
                   /\ pending.resized =>
                          out.changes = Append(e_table_size_changes, value)
            /\ pending.resized => (enc.exc = "none" /\ enc.block # << >>)

\* C16: never-indexed headers.  For every header marked never-indexed and
\* both values of can_block, encode of the header returns a block, and the
\* decoder that has applied the encoder stream parses the block into that
\* one header, never-indexed, and returns it.
C16_NeverIndexed ==
    \A headers \in EncodeInputs, can_block \in BOOLEAN :
        \A k \in 1..Len(headers) :
            LET enc == EncodeHere(<< headers[k] >>, TRUE, can_block)
                dec == FreshDecode(enc.block)
            IN  ~headers[k].indexable =>
                    /\ enc.exc = "none"
                    /\ dec.parsed = << headers[k] >>
                    /\ dec.kind = "return"
                    /\ dec.headers = << headers[k] >>

\* Integers at the edges of the 1-, 2-, 4- and 8-byte forms.
QuicInts == {0, 1, 63, 64, 16383, 16384, 1073741823, 1073741824}

\* The length in bytes of the shortest form that holds integer.
QuicFormLength(integer) ==
    IF integer < 64 THEN 1
    ELSE IF integer < 16384 THEN 2
    ELSE IF integer < 1073741824 THEN 4
    ELSE 8

\* The two high bits of the first byte of a form of this many bytes.
QuicFormCode(length) ==
    CASE length = 1 -> 0 [] length = 2 -> 1 [] length = 4 -> 2 [] length = 8 -> 3

\* C17: QUIC variable-length integer.  For every integer, encode_quic_int
\* returns the shortest form that holds it, with the two high bits of the
\* first byte telling the form, and decode_quic_int gives the integer back;
\* and a decode that returns gives the encoding of its stream id as the
\* acknowledgement.
C17_QuicInt ==
    /\ \A integer \in QuicInts :
           LET enc == encode_quic_int(integer)
               dec == decode_quic_int(enc.bytes)
           IN  /\ enc.exc = "none"
               /\ Len(enc.bytes) = QuicFormLength(integer)
               /\ enc.bytes[1] \div 64 = QuicFormCode(QuicFormLength(integer))
               /\ dec.exc = "none"
               /\ dec.value = integer
    /\ \A stream_id \in StreamIds, data \in DecodeInputs :
           LET out == DecodeHere(stream_id, data)
           IN  out.kind = "return" =>
                   out.ack = encode_quic_int(stream_id).bytes

\* The pairs reachable from the head of the list worked on directly.
TrackerPairs == LinkedList_pairs(tracker)

\* C19: tracker ordering invariant.  After any sequence of insert,
\* __delitem__, popSmallest and popMany calls the pairs reachable from head
\* are in non-decreasing order of value, and they are exactly the pairs
\* inserted and not yet removed or popped, each as often as it is owed.
C19_TrackerOrdered ==
    /\ \A k \in 1..(Len(TrackerPairs) - 1) :
           TrackerPairs[k][2] <= TrackerPairs[k + 1][2]
    /\ \A p \in DOMAIN tracker_live :
           tracker_live[p] =
               Cardinality({k \in 1..Len(TrackerPairs) : TrackerPairs[k] = p})

\* A pair was removed by key from a list that still holds two pairs, the
\* first with the smaller value.
C19_Witness ==
    /\ tracker_res.op = "delitem"
    /\ tracker_res.exc = "none"
    /\ Len(TrackerPairs) = 2
    /\ TrackerPairs[1][2] < TrackerPairs[2][2]

\* What the caller of decode sees of two outcomes is the same: the same
\* return or raise, the same error, the same headers and acknowledgement.
SameResult(x, y) ==
    /\ x.kind = y.kind
    /\ x.exc = y.exc
    /\ x.cause = y.cause
    /\ x.headers = y.headers
    /\ x.has_ack = y.has_ack
    /\ x.ack = y.ack

\* The pairs of a tracker as a set.
PairSet(bl) == {LinkedList_pairs(bl)[k] : k \in 1..Len(LinkedList_pairs(bl))}

\* decode of data on stream_id by the decoder as it is now but for its
\* tracker, which is bl.
DecodeAfter(bl, stream_id, data) ==
    Decoder_decode(d_header_table, d_max_header_list_size,
                   d_max_allowed_table_size, bl, data, stream_id)

\* The blocks decoded in two orders: those of two to four bytes.  They park
\* a stream, fail on a reference or parse to their end, as the table stands.
IndependenceInputs == {data \in DecodeInputs : Len(data) \in 2..4}

\* The second half of C18, given the outcome first of the block of stream 0
\* decoded first.
C18_Orders(data0, first0) ==
    \A data1 \in IndependenceInputs :
        LET second1 == DecodeAfter(first0.bl, 1, data1)
            first1 == DecodeHere(1, data1)
            second0 == DecodeAfter(first1.bl, 0, data0)
        IN  /\ SameResult(first0, second0)
            /\ SameResult(first1, second1)
            /\ first1.tab = d_header_table
            /\ second0.tab = d_header_table
            /\ second1.tab = d_header_table
            /\ PairSet(second1.bl) = PairSet(second0.bl)
            /\ Len(LinkedList_pairs(second1.bl)) = Len(LinkedList_pairs(second0.bl))

\* C18: per-stream independence.  decode leaves the dynamic table as it
\* was, and for every two header blocks on the streams 0 and 1, decoding
\* them in either order gives each stream the same result and leaves the
\* same table and the same set of parked (stream_id, threshold) pairs.
C18_StreamIndependence ==
    \A data0 \in IndependenceInputs :
        LET first0 == DecodeHere(0, data0)
        IN  /\ first0.tab = d_header_table
            /\ C18_Orders(data0, first0)

\* A block was parsed to its end on one stream while another stream is
\* parked.
C18_Witness ==
    /\ res.op = "decode"
    /\ res.checked
    /\ Len(Pairs) = 1

\* The reference the first representation of a block makes, read off its
\* first byte: an indexed field (1Sxxxxxx), a literal with name reference
\* (00NSxxxx), a literal with post-base name reference (0101Nxxx), an
\* indexed post-base field (0100xxxx).  rest is the block after its prefix.
FirstReference(rest) ==
    LET b == rest[1]
        none == [exc |-> "other", number |-> 0, consumed |-> 0]
    IN  IF b >= 128
        THEN [is_ref |-> TRUE, static |-> BitSet(b, 6), post |-> FALSE,
              int |-> decode_integer(rest, 6)]
        ELSE IF b < 64
        THEN [is_ref |-> TRUE, static |-> BitSet(b, 4), post |-> FALSE,
              int |-> decode_integer(rest, 4)]
        ELSE IF b \div 16 = 5
        THEN [is_ref |-> TRUE, static |-> FALSE, post |-> TRUE,
              int |-> decode_integer(rest, 3)]
        ELSE IF b \div 16 = 4
        THEN [is_ref |-> TRUE, static |-> FALSE, post |-> TRUE,
              int |-> decode_integer(rest, 4)]
        ELSE [is_ref |-> FALSE, static |-> FALSE, post |-> FALSE, int |-> none]

\* C20 for one decode that is not parked: p is the prefix of the block, r
\* the reference of its first representation, out the outcome of decode.
C20_Resolved(p, r, out) ==
    LET resolved == IF r.post THEN p.base + r.int.number + 1
                    ELSE p.base - r.int.number
    IN  IF r.static
        THEN \/ r.int.number >= Len(StaticTable)
             \/ /\ Len(out.parsed) >= 1
                /\ out.parsed[1].name = StaticTable[r.int.number + 1].name
        ELSE IF resolved > p.largest_ref
        THEN /\ out.kind = "raise"
             /\ out.exc = "QPACKDecodingError"
             /\ out.parsed = << >>
        ELSE \/ ~EntryExists(d_header_table, resolved)
             \/ /\ Len(out.refs) >= 1
                /\ out.refs[1] = resolved

\* C20: dynamic reference resolution.  In a decode that is not parked, a
\* pre-base reference with wire index i is looked up at base - i and a
\* post-base reference at base + i + 1; when that index is above the
\* largest reference the block declares, decode raises QPACKDecodingError
\* and gives no header for the representation; a static reference is
\* looked up as given, whatever the largest reference.
C20_ReferenceResolution ==
    \A stream_id \in StreamIds, data \in DecodeInputs :
        LET p == Decoder_decode_prefix(data)
            rest == From(data, p.consumed + 1)
            r == FirstReference(rest)
            out == DecodeHere(stream_id, data)
        IN  (/\ p.exc = "none"
             /\ p.largest_ref <= d_header_table.largest_ref
             /\ rest # << >>
             /\ r.is_ref
             /\ r.int.exc = "none")
            => C20_Resolved(p, r, out)

\* The handler the high-bit table gives a first byte: 1xxxxxxx indexed,
\* 01Nxxxxx literal with name reference, 001xxxxx literal without name
\* reference, 0001xxxx literal with post-base name reference, 0000xxxx
\* indexed with post-base reference.
TableHandler(current) ==
    IF current >= 128 THEN "indexed"
    ELSE IF current >= 64 THEN "literal_name_ref"
    ELSE IF current >= 32 THEN "literal_wo_name_ref"
    ELSE IF current >= 16 THEN "literal_name_ref_post"
    ELSE "indexed_post"

\* C21: header-block representation dispatch.  For each of the 256 values
\* of the first byte of a representation, decode selects the handler of
\* the high-bit table, and rejects none as an invalid instruction: when
\* decode of a block of that one byte after the prefix raises a decoding
\* error, the byte had a handler.
C21_Dispatch ==
    \A current \in 0..255 :
        LET out == DecodeHere(0, << 0, 0, current >>)
        IN  /\ Decoder_decode_handler(current) = TableHandler(current)
            /\ (out.kind = "raise" /\ out.cause = "QPACKDecodingError") =>
                   Decoder_decode_handler(current) # "invalid"

\* No two pairs of the sequence have the same key.
UniqueKeys(ps) ==
    \A j \in 1..Len(ps), k \in 1..Len(ps) : ps[j][1] = ps[k][1] => j = k

C24_TrackerTail ==
    LET chain == LinkedList_chain(tracker, tracker.head)
    IN  /\ (tracker.tail = 0) <=> (tracker.head = 0)
        /\ tracker.head # 0 =>
               /\ tracker.tail = chain[Len(chain)]
               /\ tracker.nodes[tracker.tail].next = 0
               /\ \A k \in 1..Len(chain) :
                      tracker.nodes[chain[k]].value
                          <= tracker.nodes[tracker.tail].value

\* C25: tracker lookup terminates.  Every __getitem__ and __setitem__ call
\* that has entered its loop leaves it, by a return or by KeyError,
\* whatever the list holds and whatever key is looked for.
C25_LookupTerminates ==
    (lookup.pc = "loop") ~> (lookup.pc = "idle")

====
